---- MODULE Spec2Model ----
(***************************************************************************)
(* State-machine model of BaseLayout (src/src/elements/base.ts): the       *)
(* reference-counted attribute tracker, the CSS synthesizer/serializer,    *)
(* the style-block injector and the child MutationObserver pipeline.       *)
(*                                                                         *)
(* Representation choices:                                                 *)
(*  - an attribute name is the sequence of its dash-free segments, so      *)
(*    <<"gap","sm">> is "gap-sm"; name.split(SEPARATOR) is then the        *)
(*    sequence itself and join() is modelled by Join;                      *)
(*  - a JS Map is a sequence of [key, n] entries in insertion order;       *)
(*  - a JS object is a sequence of [key, val] entries in insertion order;  *)
(*  - CSS text is a sequence of lexemes (each key, each value and each     *)
(*    piece of punctuation the template literals emit is one lexeme), and  *)
(*    string concatenation is sequence concatenation.                      *)
(***************************************************************************)
EXTENDS Integers, Sequences, FiniteSets, TLC

\* ------------------------------------------------------------ constants
SEPARATOR == "-"

\* JS null (attribute absent / no old value) and undefined (failed find()).
Null == "<null>"
Undefined == "<undefined>"

\* ------------------------------------------------------------ bounds
MaxSteps == 4
MaxRecords == 2

\* Attribute values are opaque strings.
Values == {"a", "b"}
ChildIds == {1, 2}

\* ------------------------------------------------------ external config
\* getBps(): the ordered Breakpoint Registry.
Breakpoints ==
  << [alias |-> "sm", mediaQuery |-> "(max-width: 599px)"],
     [alias |-> "md", mediaQuery |-> "(min-width: 600px)"] >>

\* The synthetic "all" breakpoint built by the constructor.
AllBreakpoint == [alias |-> "", mediaQuery |-> "all"]

\* The Property Registry handed to the constructor, in registry order.
Properties ==
  << [name |-> "gap", child |-> FALSE],
     [name |-> "align", child |-> FALSE],
     [name |-> "variant", child |-> TRUE] >>

\* A declaration object of one entry.
Decl(k, v) == << [key |-> k, val |-> [isObj |-> FALSE, s |-> v, o |-> <<>>]] >>

\* The properties' update functions: (value, alias) -> [hostCss, childCss]
\* for a host-scoped property, [childCss] for a child-scoped one.
UpdateFn(name, value, alias) ==
  CASE name = "gap"     -> << Decl("gap", value), Decl("margin", value) >>
    [] name = "align"   -> << Decl("align-items", value) \o Decl("gap", value),
                              Decl("margin", value) >>
    [] name = "variant" -> << Decl("order", value) >>

\* --------------------------------------------------------- JS helpers
RECURSIVE Join(_)
Join(segs) ==
  IF segs = <<>> THEN ""
  ELSE IF Len(segs) = 1 THEN segs[1]
  ELSE segs[1] \o SEPARATOR \o Join(Tail(segs))

\* Array.prototype.findIndex with a predicate on names; 0 stands for -1.
RECURSIVE FindIndexFrom(_, _, _)
FindIndexFrom(seq, x, i) ==
  IF i > Len(seq) THEN 0
  ELSE IF seq[i] = x THEN i
  ELSE FindIndexFrom(seq, x, i + 1)

\* Map.has / Map.get / Map.set / Map.delete on an insertion-ordered map.
MapIndex(m, k) == FindIndexFrom([i \in 1..Len(m) |-> m[i].key], k, 1)
MapHas(m, k) == MapIndex(m, k) # 0
MapGet(m, k) == m[MapIndex(m, k)].n
\* Map.set moving an already present key to the end.
MapSetMoveToEnd(m, k, n) ==
  Append(SelectSeq(m, LAMBDA e : e.key # k), [key |-> k, n |-> n])

MapSet(m, k, n) ==
  IF MapHas(m, k)
    THEN [m EXCEPT ![MapIndex(m, k)] = [key |-> k, n |-> n]]
    ELSE Append(m, [key |-> k, n |-> n])
MapDelete(m, k) ==
  IF MapHas(m, k)
    THEN SubSeq(m, 1, MapIndex(m, k) - 1) \o SubSeq(m, MapIndex(m, k) + 1, Len(m))
    ELSE m
MapKeys(m) == [i \in 1..Len(m) |-> m[i].key]

\* obj[key] = val on a JS object with string keys: an existing key keeps
\* its position, a new key goes last.
ObjIndex(obj, k) == FindIndexFrom([i \in 1..Len(obj) |-> obj[i].key], k, 1)
ObjSet(obj, k, v) ==
  IF ObjIndex(obj, k) # 0
    THEN [obj EXCEPT ![ObjIndex(obj, k)] = [key |-> k, val |-> v]]
    ELSE Append(obj, [key |-> k, val |-> v])
ObjGet(obj, k) == obj[ObjIndex(obj, k)].val

Obj(o) == [isObj |-> TRUE, s |-> "", o |-> o]

RECURSIVE ObjAssign(_, _)
\* for (let key of Object.keys(src)) dst[key] = src[key]
ObjAssign(dst, src) ==
  IF src = <<>> THEN dst
  ELSE ObjAssign(ObjSet(dst, src[1].key, src[1].val), Tail(src))

\* ------------------------------------------------------------- state
VARIABLES
  layoutType,   \* this._layoutType
  propertyMap,  \* this._propertyMap: key -> Map(value -> count)
  bpProperties, \* the `properties` list of every breakpoint descriptor, by alias
  shadow,       \* this.shadowRoot.children, in document order
  threw,        \* the last handler invocation ended in an uncaught TypeError
  hostAttrs,    \* the host element's attributes, by attribute name
  children,     \* this.shadowRoot.host.children, in document order
  childAttrs,   \* every child element's attributes, by attribute name
  connected,    \* the element is attached to a document
  observed,     \* nodes registered with the live _childObserver
  records,      \* the observer's record queue (MutationRecords not yet delivered)
  steps,        \* number of operations performed so far (bounded by MaxSteps)
  op            \* the operation that produced this state

vars == << layoutType, propertyMap, bpProperties, shadow, threw, hostAttrs,
           children, childAttrs, connected, observed, records, steps, op >>

\* The part of the state the element's own methods read and write.
Element == [pm |-> propertyMap, bps |-> bpProperties, shadow |-> shadow, threw |-> FALSE]

\* ------------------------------------------------- BaseLayout helpers
\* _getValues' key.
ValueKey(property, alias) ==
  IF alias # "" THEN property \o "." \o alias ELSE property

\* _getValues: the map it returns (a fresh empty one for an unseen key) ...
GetValues(pm, property, alias) ==
  IF ValueKey(property, alias) \in DOMAIN pm THEN pm[ValueKey(property, alias)] ELSE <<>>

\* The lazy creation seeding the new map with an entry.
EnsureValuesSeeded(pm, property, alias) ==
  IF ValueKey(property, alias) \in DOMAIN pm THEN pm
  ELSE (ValueKey(property, alias) :> << [key |-> "0", n |-> 0] >>) @@ pm

\* ... and its side effect on _propertyMap.
EnsureValues(pm, property, alias) ==
  IF ValueKey(property, alias) \in DOMAIN pm THEN pm
  ELSE (ValueKey(property, alias) :> <<>>) @@ pm

\* A write through the map reference _getValues returned.
PutValues(pm, property, alias, m) ==
  [k \in DOMAIN pm \cup {ValueKey(property, alias)} |->
     IF k = ValueKey(property, alias) THEN m ELSE pm[k]]

BpAliases == {Breakpoints[i].alias : i \in 1..Len(Breakpoints)} \cup {AllBreakpoint.alias}

\* _getBreakpointByAlias with a lookup that never matches.
GetBreakpointNeverFound(alias) == AllBreakpoint

\* _getBreakpointByAlias.
GetBreakpointByAlias(alias) ==
  LET bpIndex == FindIndexFrom([i \in 1..Len(Breakpoints) |-> Breakpoints[i].alias], alias, 1)
  IN IF bpIndex # 0 THEN Breakpoints[bpIndex] ELSE AllBreakpoint

\* bp.properties.findIndex(p => p.name === prop): reading .name of an
\* undefined entry raises a TypeError (-1 here); 0 stands for "not found".
RECURSIVE FindPropFrom(_, _, _)
FindPropFrom(props, prop, i) ==
  IF i > Len(props) THEN 0
  ELSE IF props[i] = Undefined THEN -1
  ELSE IF props[i] = prop THEN i
  ELSE FindPropFrom(props, prop, i + 1)

\* this._properties.find(p => p.name === prop)
RegistryFind(prop) ==
  IF \E i \in 1..Len(Properties) : Properties[i].name = prop THEN prop ELSE Undefined

PropertyOf(name) == Properties[CHOOSE i \in 1..Len(Properties) : Properties[i].name = name]

\* _getPropertyByName: [property, newProp]; called only when findIndex returned.
\* _getPropertyByName without the lookup in bp.properties.
GetPropertyAlwaysNew(props, prop) == << RegistryFind(prop), TRUE >>

GetPropertyByName(props, prop) ==
  IF FindPropFrom(props, prop, 1) > 0
    THEN << props[FindPropFrom(props, prop, 1)], FALSE >>
    ELSE << RegistryFind(prop), TRUE >>

\* RecordChange without the removal of an entry whose count reached 0.
RecordChangeKeepZero(values, oldValue, newValue) ==
  LET v1 == IF MapHas(values, oldValue)
              THEN MapSet(values, oldValue, MapGet(values, oldValue) - 1)
              ELSE values
  IN IF newValue # Null
       THEN MapSet(v1, newValue, (IF MapHas(v1, newValue) THEN MapGet(v1, newValue) ELSE 0) + 1)
       ELSE v1

\* The Value Tracker update of attributeChangedCallback (lines 52-62).
\* The tracker update without the decrement and removal of the old value.
RecordChangeAddOnly(values, oldValue, newValue) ==
  IF newValue # Null
    THEN MapSet(values, newValue,
                (IF MapHas(values, newValue) THEN MapGet(values, newValue) ELSE 0) + 1)
    ELSE values

RecordChange(values, oldValue, newValue) ==
  LET v1 == IF MapHas(values, oldValue)
              THEN MapSet(values, oldValue, MapGet(values, oldValue) - 1)
              ELSE values
      v2 == IF newValue # Null
              THEN MapSet(v1, newValue, (IF MapHas(v1, newValue) THEN MapGet(v1, newValue) ELSE 0) + 1)
              ELSE v1
  IN IF MapHas(v2, oldValue) /\ MapGet(v2, oldValue) = 0
       THEN MapDelete(v2, oldValue)
       ELSE v2

IsParentProp(p) == ~PropertyOf(p).child
IsChildProp(p) == PropertyOf(p).child

\* _buildCss, first loop: the host-scoped properties in list order.
RECURSIVE BuildParent(_, _, _, _)
BuildParent(css, pm, alias, parentProps) ==
  IF parentProps = <<>> THEN css
  ELSE
    LET values == GetValues(pm, parentProps[1], alias)
    IN IF Len(values) = 0
         THEN BuildParent(css, pm, alias, Tail(parentProps))
         ELSE
           LET value == values[1].key
               frags == UpdateFn(parentProps[1], value, alias)
               host  == Obj(ObjAssign(ObjGet(css, ":host").o, frags[1]))
               child == Obj(ObjAssign(ObjGet(css, ":host>*").o, frags[2]))
           IN BuildParent(ObjSet(ObjSet(css, ":host", host), ":host>*", child),
                          pm, alias, Tail(parentProps))

\* The attribute selector of one tracked value of a child-scoped property.
ChildKey(name, alias, key) ==
  LET childPropName == IF alias # "" THEN name \o SEPARATOR \o alias ELSE name
  IN "::slotted([" \o childPropName \o "=\"" \o key \o "\"])"

RECURSIVE BuildChildValues(_, _, _, _)
BuildChildValues(css, name, alias, keys) ==
  IF keys = <<>> THEN css
  ELSE BuildChildValues(
         ObjSet(css, ChildKey(name, alias, keys[1]), Obj(UpdateFn(name, keys[1], alias)[1])),
         name, alias, Tail(keys))

\* The second loop taking, like the first, only the first tracked value.
RECURSIVE BuildChildFirstValue(_, _, _, _)
BuildChildFirstValue(css, pm, alias, childProps) ==
  IF childProps = <<>> THEN css
  ELSE BuildChildFirstValue(
         BuildChildValues(css, childProps[1], alias,
                          SubSeq(MapKeys(GetValues(pm, childProps[1], alias)), 1, 1)),
         pm, alias, Tail(childProps))

\* _buildCss, second loop: the child-scoped properties in list order.
RECURSIVE BuildChild(_, _, _, _)
BuildChild(css, pm, alias, childProps) ==
  IF childProps = <<>> THEN css
  ELSE BuildChild(
         BuildChildValues(css, childProps[1], alias, MapKeys(GetValues(pm, childProps[1], alias))),
         pm, alias, Tail(childProps))

\* _buildCss: the CSS object (properties holds no undefined entry).
BuildCss(pm, alias, properties, inline, lt, applyDefaults) ==
  LET parentProps == SelectSeq(properties, IsParentProp)
      childProps  == SelectSeq(properties, IsChildProp)
      css0 == << [key |-> ":host", val |-> Obj(<<>>)], [key |-> ":host>*", val |-> Obj(<<>>)] >>
      css1 == BuildParent(css0, pm, alias, parentProps)
      css2 == BuildChild(css1, pm, alias, childProps)
      parentSize == Len(ObjGet(css2, ":host").o)
  IN IF parentSize # 0 \/ applyDefaults
       THEN ObjSet(css2, ":host",
              Obj(ObjSet(ObjGet(css2, ":host").o, "display",
                         [isObj |-> FALSE, o |-> <<>>,
                          s |-> IF inline THEN "inline-" \o lt ELSE lt])))
       ELSE css2

\* _buildCss' side effect: _getValues creates the map of every listed property.
RECURSIVE EnsureAll(_, _, _)
EnsureAll(pm, alias, properties) ==
  IF properties = <<>> THEN pm
  ELSE EnsureAll(EnsureValues(pm, properties[1], alias), alias, Tail(properties))


\* unwrapCss (lines 110-127): a non-empty string is returned as it is; an
\* object is formatted key by key, a key whose value unwraps to nothing
\* (empty string, empty object) being left out.
RECURSIVE UnwrapCss(_)
UnwrapCss(wrapCss) ==
  IF ~wrapCss.isObj
    THEN (IF wrapCss.s = "" THEN <<>> ELSE << wrapCss.s >>)
    ELSE
      LET keys == wrapCss.o
          Fmt[i \in 0..Len(keys)] ==
            IF i = 0 THEN <<>>
            ELSE
              LET key == keys[i].key
                  addCss == UnwrapCss(keys[i].val)
              IN IF addCss = <<>> THEN Fmt[i - 1]
                 ELSE IF keys[i].val.isObj
                   THEN Fmt[i - 1] \o << key, " {" >> \o addCss \o << "}" >>
                   ELSE Fmt[i - 1] \o << key, ": " >> \o addCss \o << ";" >>
      IN Fmt[Len(keys)]

\* `@media ${mediaQuery} {${cssStyles}}`
MediaBlock(mediaQuery, cssStyles) ==
  << "@media ", mediaQuery, " {" >> \o cssStyles \o << "}" >>

StyleId(lt, alias) == lt \o "-" \o (IF alias # "" THEN alias ELSE "all")

StyleNode(id, text) == [tag |-> "style", id |-> id, text |-> text]
SlotNode == [tag |-> "slot", id |-> "", text |-> <<>>]

\* shadowRoot.getElementById(id): index of the first element with that id, 0 for null.
GetElementById(sh, id) == FindIndexFrom([i \in 1..Len(sh) |-> sh[i].id], id, 1)

\* parent.insertBefore(node, ref): ref = 0 (null or undefined) appends.
\* insertBefore taking the reference node as the node to insert after.
InsertAfter(sh, node, ref) ==
  IF ref = 0 THEN Append(sh, node)
  ELSE SubSeq(sh, 1, ref) \o << node >> \o SubSeq(sh, ref + 1, Len(sh))

InsertBefore(sh, node, ref) ==
  IF ref = 0 THEN Append(sh, node)
  ELSE SubSeq(sh, 1, ref - 1) \o << node >> \o SubSeq(sh, ref, Len(sh))

\* _attachCss without the lookup of an existing block: always a new element.
AttachCssAlwaysCreate(sh, css, mediaQuery, alias, lt) ==
  InsertBefore(sh, StyleNode(StyleId(lt, alias), MediaBlock(mediaQuery, UnwrapCss(Obj(css)))),
               IF alias # ""
                 THEN FindIndexFrom([i \in 1..Len(sh) |-> sh[i].tag], "slot", 1)
                 ELSE (IF Len(sh) >= 2 THEN 2 ELSE 0))

\* _attachCss.
AttachCss(sh, css, mediaQuery, alias, lt) ==
  LET id == StyleId(lt, alias)
      styleElement == GetElementById(sh, id)
      cssStyles == UnwrapCss(Obj(css))
      slotElement ==
        IF alias # ""
          THEN FindIndexFrom([i \in 1..Len(sh) |-> sh[i].tag], "slot", 1)
          ELSE (IF Len(sh) >= 2 THEN 2 ELSE 0)
  IN IF styleElement = 0
       THEN InsertBefore(sh, StyleNode(id, MediaBlock(mediaQuery, cssStyles)), slotElement)
       ELSE [sh EXCEPT ![styleElement].text = MediaBlock(mediaQuery, cssStyles)]

\* this.hasAttribute(name) on the host.
HostHasAttribute(attrs, name) == name \in DOMAIN attrs /\ attrs[name] # Null

\* attributeChangedCallback(name, oldValue, newValue) on element state el,
\* with the host's attributes attrs. A TypeError leaves what was written
\* before it and sets threw.
AttributeChangedCallback(el, attrs, lt, name, oldValue, newValue) ==
  LET prop  == Head(name)
      alias == Join(Tail(name))
      bp    == GetBreakpointByAlias(alias)
      props == el.bps[bp.alias]
  IN IF FindPropFrom(props, prop, 1) = -1
       THEN [el EXCEPT !.threw = TRUE]
       ELSE
         LET found  == GetPropertyByName(props, prop)
             props1 == IF found[2] THEN Append(props, found[1]) ELSE props
             bps1   == [el.bps EXCEPT ![bp.alias] = props1]
             values == RecordChange(GetValues(el.pm, prop, alias), oldValue, newValue)
             pm1    == PutValues(el.pm, prop, alias, values)
         IN IF \E i \in 1..Len(props1) : props1[i] = Undefined
              THEN [el EXCEPT !.bps = bps1, !.pm = pm1, !.threw = TRUE]
              ELSE
                LET inlineAttr == IF bp.alias # "" THEN "inline" \o SEPARATOR \o bp.alias
                                  ELSE "inline"
                    css == BuildCss(pm1, bp.alias, props1, HostHasAttribute(attrs, inlineAttr),
                                    lt, alias # "")
                IN [el EXCEPT !.bps = bps1,
                              !.pm = EnsureAll(pm1, bp.alias, props1),
                              !.shadow = AttachCss(el.shadow, css, bp.mediaQuery, bp.alias, lt)]

\* ------------------------------------------------------------ the DOM
LayoutTypes == {"flex", "grid"}

\* getProps(child-scoped properties): the attribute names the observer
\* filters on, in the order connectedCallback replays them.
ChildrenPropsBps ==
  << <<"variant">>, <<"variant", "sm">>, <<"variant", "md">> >>

\* The host's observed attribute names (static observedAttributes of the
\* concrete element) that the model exercises, the child attribute names it
\* mutates, and the breakpoints whose inline attribute it toggles.
HostNames == { <<"gap">>, <<"gap", "sm">> }
ChildNames == { <<"variant">>, <<"variant", "md">> }
InlineAliases == { "" }

\* Names outside the registries: an alias no breakpoint has, a property no
\* descriptor has.
UnknownAliasNames == { <<"gap", "zz">> }
UnknownPropNames == { <<"bogus">>, <<"bogus", "sm">> }

\* Values handed to attributeChangedCallback when it is called as a method.
DirectValues == { "a", "b", "c" }

\* Two host-scoped properties whose fragments share declaration keys.
CollisionNames == { <<"gap">>, <<"align">> }

InlineAttr(alias) == IF alias # "" THEN "inline" \o SEPARATOR \o alias ELSE "inline"

AllHostAttrs ==
  {Join(n) : n \in HostNames \cup UnknownAliasNames \cup UnknownPropNames \cup CollisionNames}
    \cup {InlineAttr(a) : a \in BpAliases}
AllChildAttrs == {Join(ChildrenPropsBps[i]) : i \in 1..Len(ChildrenPropsBps)}

\* The constructor's shadowRoot.innerHTML (lines 18-19), lexed as the
\* serializer lexes its own output.
ConstructorShadow(lt) ==
  << StyleNode("", << ":host", " {", "contain", ": ", "content", ";", "}" >>),
     StyleNode(lt \o "-all",
               << "@media ", "all", " {", ":host", " {", "display", ": ", lt, ";", "}", "}" >>),
     SlotNode >>

InitChildren == { <<>>, <<1, 2>> }

Init ==
  /\ layoutType \in LayoutTypes
  /\ propertyMap = << >>
  /\ bpProperties = [a \in BpAliases |-> <<>>]
  /\ shadow = ConstructorShadow(layoutType)
  /\ threw = FALSE
  /\ hostAttrs = [a \in AllHostAttrs |-> Null]
  /\ children \in InitChildren
  /\ childAttrs = [c \in ChildIds |-> [a \in AllChildAttrs |-> Null]]
  /\ connected = FALSE
  /\ observed = {}
  /\ records = <<>>
  /\ steps = 0
  /\ op = "constructor"

\* The element's part of the next state.
Becomes(el) ==
  /\ propertyMap' = el.pm
  /\ bpProperties' = el.bps
  /\ shadow' = el.shadow
  /\ threw' = el.threw

Tick(o) == steps < MaxSteps /\ steps' = steps + 1 /\ op' = o

\* host.setAttribute(name, v): the platform calls attributeChangedCallback
\* synchronously with the previous and the new value.
HostSetAttribute(name, v) ==
  /\ Tick("setAttribute")
  /\ hostAttrs' = [hostAttrs EXCEPT ![Join(name)] = v]
  /\ \E el \in {AttributeChangedCallback(Element, hostAttrs', layoutType, name,
                                         hostAttrs[Join(name)], v)} : Becomes(el)
  /\ UNCHANGED << layoutType, children, childAttrs, connected, observed, records >>

\* host.removeAttribute(name) of a present attribute.
HostRemoveAttribute(name) ==
  /\ Tick("removeAttribute")
  /\ hostAttrs[Join(name)] # Null
  /\ hostAttrs' = [hostAttrs EXCEPT ![Join(name)] = Null]
  /\ \E el \in {AttributeChangedCallback(Element, hostAttrs', layoutType, name,
                                         hostAttrs[Join(name)], Null)} : Becomes(el)
  /\ UNCHANGED << layoutType, children, childAttrs, connected, observed, records >>

\* host.toggleAttribute("inline" / "inline-<alias>"): base.ts only reads
\* this attribute (line 64-65) when some update cycle runs.
ToggleInline(alias) ==
  /\ Tick("toggleInline")
  /\ hostAttrs' = [hostAttrs EXCEPT ![InlineAttr(alias)] =
                     IF hostAttrs[InlineAttr(alias)] = Null THEN "" ELSE Null]
  /\ UNCHANGED << layoutType, propertyMap, bpProperties, shadow, threw,
                  children, childAttrs, connected, observed, records >>

\* The record an attribute mutation of child c queues when c is observed.
QueueRecord(c, name) ==
  IF c \in observed
    THEN /\ Len(records) < MaxRecords
         /\ records' = Append(records, [target |-> c, attributeName |-> name,
                                        oldValue |-> childAttrs[c][Join(name)]])
    ELSE UNCHANGED records

\* child.setAttribute(name, v) on any element that is or may become a child.
ChildSetAttribute(c, name, v) ==
  /\ Tick("childSetAttribute")
  /\ childAttrs' = [childAttrs EXCEPT ![c][Join(name)] = v]
  /\ QueueRecord(c, name)
  /\ UNCHANGED << layoutType, propertyMap, bpProperties, shadow, threw,
                  hostAttrs, children, connected, observed >>

\* child.removeAttribute(name) of a present attribute.
ChildRemoveAttribute(c, name) ==
  /\ Tick("childRemoveAttribute")
  /\ childAttrs[c][Join(name)] # Null
  /\ childAttrs' = [childAttrs EXCEPT ![c][Join(name)] = Null]
  /\ QueueRecord(c, name)
  /\ UNCHANGED << layoutType, propertyMap, bpProperties, shadow, threw,
                  hostAttrs, children, connected, observed >>

\* The observer callback (lines 77-81): mutations.forEach, each record with
\* the value the attribute has now; an exception ends the forEach.
RECURSIVE ForEachMutation(_, _, _, _, _)
ForEachMutation(el, attrs, lt, cattrs, mutations) ==
  IF mutations = <<>> \/ el.threw THEN el
  ELSE ForEachMutation(
         AttributeChangedCallback(el, attrs, lt, mutations[1].attributeName,
           mutations[1].oldValue,
           cattrs[mutations[1].target][Join(mutations[1].attributeName)]),
         attrs, lt, cattrs, Tail(mutations))

\* The microtask that hands the whole record queue to the observer callback.
Deliver ==
  /\ Tick("deliver")
  /\ records # <<>>
  /\ records' = <<>>
  /\ \E el \in {ForEachMutation(Element, hostAttrs, layoutType, childAttrs, records)} :
       Becomes(el)
  /\ UNCHANGED << layoutType, hostAttrs, children, childAttrs, connected, observed >>

\* connectedCallback, inner loop (lines 88-93) for one child.
RECURSIVE ReplayChild(_, _, _, _, _)
ReplayChild(el, attrs, lt, cattr, propBps) ==
  IF propBps = <<>> \/ el.threw THEN el
  ELSE ReplayChild(
         IF cattr[Join(propBps[1])] # Null
           THEN AttributeChangedCallback(el, attrs, lt, propBps[1], Null, cattr[Join(propBps[1])])
           ELSE el,
         attrs, lt, cattr, Tail(propBps))

\* connectedCallback, outer loop (lines 86-99): [el, observed]; an exception
\* in a replay ends the loop before that child is observed.
RECURSIVE ConnectLoop(_, _, _, _, _, _)
ConnectLoop(el, obs, attrs, lt, cattrs, kids) ==
  IF kids = <<>> THEN << el, obs >>
  ELSE
    LET el1 == ReplayChild(el, attrs, lt, cattrs[kids[1]], ChildrenPropsBps)
    IN IF el1.threw THEN << el1, obs >>
       ELSE ConnectLoop(el1, obs \cup {kids[1]}, attrs, lt, cattrs, Tail(kids))

\* connectedCallback: a fresh observer, replay and observe every child.
ConnectedCallback ==
  /\ Tick("connectedCallback")
  /\ ~connected
  /\ connected' = TRUE
  /\ \E r \in {ConnectLoop(Element, {}, hostAttrs, layoutType, childAttrs, children)} :
       Becomes(r[1]) /\ observed' = r[2]
  /\ records' = <<>>
  /\ UNCHANGED << layoutType, hostAttrs, children, childAttrs >>

\* disconnectedCallback: observer.disconnect() drops every registration and
\* empties the record queue.
\* disconnect() leaving the record queue to the pending microtask.
DisconnectedCallbackKeepsQueue ==
  /\ Tick("disconnectedCallback")
  /\ connected
  /\ connected' = FALSE
  /\ observed' = {}
  /\ UNCHANGED << layoutType, propertyMap, bpProperties, shadow, threw,
                  hostAttrs, children, childAttrs, records >>

DisconnectedCallback ==
  /\ Tick("disconnectedCallback")
  /\ connected
  /\ connected' = FALSE
  /\ observed' = {}
  /\ records' = <<>>
  /\ UNCHANGED << layoutType, propertyMap, bpProperties, shadow, threw,
                  hostAttrs, children, childAttrs >>

\* The host is moved inside the document: the platform runs
\* disconnectedCallback and then connectedCallback, with nothing in between.
MoveHost ==
  /\ Tick("move")
  /\ connected
  /\ \E r \in {ConnectLoop(Element, {}, hostAttrs, layoutType, childAttrs, children)} :
       Becomes(r[1]) /\ observed' = r[2]
  /\ records' = <<>>
  /\ UNCHANGED << layoutType, hostAttrs, children, childAttrs, connected >>

\* host.appendChild(c): nothing in base.ts reacts to it.
AppendChild(c) ==
  /\ Tick("appendChild")
  /\ \A i \in 1..Len(children) : children[i] # c
  /\ children' = Append(children, c)
  /\ UNCHANGED << layoutType, propertyMap, bpProperties, shadow, threw,
                  hostAttrs, childAttrs, connected, observed, records >>

\* host.removeChild(c): the observer keeps observing the removed node.
RemoveChild(c) ==
  /\ Tick("removeChild")
  /\ \E i \in 1..Len(children) : children[i] = c
  /\ children' = SelectSeq(children, LAMBDA x : x # c)
  /\ UNCHANGED << layoutType, propertyMap, bpProperties, shadow, threw,
                  hostAttrs, childAttrs, connected, observed, records >>

\* Attribute operations on the host and on the children, their delivery,
\* and the first attach.
NextAttrOps ==
  \/ \E n \in HostNames, v \in Values : HostSetAttribute(n, v)
  \/ \E n \in HostNames : HostRemoveAttribute(n)
  \/ \E c \in ChildIds, n \in ChildNames, v \in Values : ChildSetAttribute(c, n, v)
  \/ \E c \in ChildIds, n \in ChildNames : ChildRemoveAttribute(c, n)
  \/ Deliver
  \/ ConnectedCallback

\* ... and changes of the host's child list.
NextChildList ==
  \/ NextAttrOps
  \/ \E c \in ChildIds : AppendChild(c)
  \/ \E c \in ChildIds : RemoveChild(c)

\* ... and detach, re-attach and the inline attribute.
Next ==
  \/ NextChildList
  \/ \E a \in InlineAliases : ToggleInline(a)
  \/ DisconnectedCallback
  \/ MoveHost

\* Host attribute names whose property no descriptor has.
NextUnknownProp ==
  \/ \E n \in HostNames \cup UnknownPropNames, v \in Values : HostSetAttribute(n, v)
  \/ \E n \in HostNames \cup UnknownPropNames : HostRemoveAttribute(n)

\* Host attribute names whose alias no breakpoint has.
NextUnknownAlias ==
  \/ \E n \in HostNames \cup UnknownAliasNames, v \in Values : HostSetAttribute(n, v)
  \/ \E n \in HostNames \cup UnknownAliasNames : HostRemoveAttribute(n)
  \/ \E a \in InlineAliases : ToggleInline(a)

Spec == Init /\ [][Next]_vars
SpecAttrOps == Init /\ [][NextAttrOps]_vars
SpecChildList == Init /\ [][NextChildList]_vars
SpecUnknownProp == Init /\ [][NextUnknownProp]_vars
SpecUnknownAlias == Init /\ [][NextUnknownAlias]_vars

\* element.attributeChangedCallback(name, oldValue, newValue) called as the
\* public method it is, with any old and new value.
Notify(name, oldValue, newValue) ==
  /\ Tick("notify")
  /\ \E el \in {AttributeChangedCallback(Element, hostAttrs, layoutType, name,
                                         oldValue, newValue)} : Becomes(el)
  /\ UNCHANGED << layoutType, hostAttrs, children, childAttrs, connected, observed, records >>

NextDirect ==
  \E o \in DirectValues \cup {Null}, n \in DirectValues \cup {Null} : Notify(<<"gap">>, o, n)

SpecDirect == Init /\ [][NextDirect]_vars

\* Host attribute changes only: every notification comes from the host's own
\* attribute-change mechanism.
NextHostOnly ==
  \/ \E n \in HostNames, v \in Values : HostSetAttribute(n, v)
  \/ \E n \in HostNames : HostRemoveAttribute(n)
  \/ \E a \in InlineAliases : ToggleInline(a)

SpecHostOnly == Init /\ [][NextHostOnly]_vars

\* Host attribute changes of two properties with colliding declaration keys.
NextCollision ==
  \/ \E n \in CollisionNames, v \in Values : HostSetAttribute(n, v)
  \/ \E n \in CollisionNames : HostRemoveAttribute(n)
  \/ \E a \in InlineAliases : ToggleInline(a)

SpecCollision == Init /\ [][NextCollision]_vars

TypeOK ==
  /\ steps \in 0..MaxSteps
  /\ Len(records) <= MaxRecords

\* ====================================================== the claims
\* The count stored for value v under the key of attribute name.
Count(name, v) ==
  LET m == GetValues(propertyMap, Head(name), Join(Tail(name)))
  IN IF MapHas(m, v) THEN MapGet(m, v) ELSE 0

RECURSIVE SumCounts(_)
SumCounts(m) == IF m = <<>> THEN 0 ELSE m[1].n + SumCounts(Tail(m))

ChildSet == {children[i] : i \in 1..Len(children)}

HostCarries(name, v) == Join(name) \in DOMAIN hostAttrs /\ hostAttrs[Join(name)] = v
ChildCarries(c, name, v) == Join(name) \in DOMAIN childAttrs[c] /\ childAttrs[c][Join(name)] = v

\* Number of elements among the host and the children in cs that carry
\* attribute name with exactly value v.
Carriers(cs, name, v) ==
  (IF HostCarries(name, v) THEN 1 ELSE 0)
    + Cardinality({c \in cs : ChildCarries(c, name, v)})

TrackedNames == HostNames \cup ChildNames

\* C1: with the element attached and every queued notification processed,
\* the count stored for value v under the key of an attribute equals the
\* number of elements (the host and the observed children) that carry the
\* attribute with exactly value v.
C1_CountEqualsCarriers ==
  (connected /\ records = <<>>) =>
    \A name \in TrackedNames, v \in Values :
      Count(name, v) = Carriers(observed, name, v)

\* C2: with the element attached and every queued notification processed,
\* for every key the sum of the tracked counts equals the number of elements
\* among the host and its current direct children that carry the attribute,
\* whether a child was there at attach or appeared later, and not counting
\* children that were removed.
C2_SumEqualsConnectedCarriers ==
  (connected /\ records = <<>>) =>
    \A name \in TrackedNames :
      SumCounts(GetValues(propertyMap, Head(name), Join(Tail(name))))
        = Cardinality({v \in Values : HostCarries(name, v)})
          + Cardinality({c \in ChildSet : \E v \in Values : ChildCarries(c, name, v)})

\* C3: every entry of every tracked-value map has a count of at least 1.
C3_CountsAtLeastOne ==
  \A k \in DOMAIN propertyMap :
    \A i \in 1..Len(propertyMap[k]) : propertyMap[k][i].n >= 1

\* C3 witness: the host's gap value was removed down to count 0 and its map,
\* still there, holds no entry.
C3_Witness ==
  /\ op = "removeAttribute"
  /\ "gap" \in DOMAIN propertyMap
  /\ propertyMap["gap"] = <<>>
  /\ hostAttrs["gap"] = Null

\* ------------------------------------------------ reading style blocks
NoText == << "<no style block>" >>

\* The text of the style block of breakpoint alias in shadow tree sh.
BlockText(sh, alias) ==
  IF GetElementById(sh, StyleId(layoutType, alias)) = 0 THEN NoText
  ELSE sh[GetElementById(sh, StyleId(layoutType, alias))].text

Contains(text, sub) ==
  \E i \in 1..(Len(text) - Len(sub) + 1) : SubSeq(text, i, i + Len(sub) - 1) = sub

\* The lexemes of the rule with selector sel in text, braces included
\* (empty when text has no such rule).
RuleOf(text, sel) ==
  IF \E i \in 1..(Len(text) - 1) : text[i] = sel /\ text[i + 1] = " {"
    THEN LET i == CHOOSE i \in 1..(Len(text) - 1) : text[i] = sel /\ text[i + 1] = " {"
             j == CHOOSE j \in (i + 1)..Len(text) :
                    text[j] = "}" /\ \A k \in (i + 1)..(j - 1) : text[k] # "}"
         IN SubSeq(text, i, j)
    ELSE <<>>

HasDecl(rule, k, v) == Contains(rule, << k, ": ", v, ";" >>)

\* Number of rules with selector sel in text.
NumRules(text, sel) ==
  Cardinality({i \in 1..(Len(text) - 1) : text[i] = sel /\ text[i + 1] = " {"})

HostPropNames == {Properties[i].name : i \in {j \in 1..Len(Properties) : ~Properties[j].child}}
ChildPropNames == {Properties[i].name : i \in {j \in 1..Len(Properties) : Properties[j].child}}

\* No host-scoped property has a tracked value at the "all" breakpoint.
NoHostValueAtAll ==
  \A p \in HostPropNames : GetValues(propertyMap, p, AllBreakpoint.alias) = <<>>

\* The display value the host rule is to carry.
DisplayValue ==
  IF HostHasAttribute(hostAttrs, "inline") THEN "inline-" \o layoutType ELSE layoutType

\* C4: when no host-scoped property has a tracked value at the "all"
\* breakpoint, the host rule of the "all" style block declares display: T,
\* or display: inline-T when the host carries the inline attribute.
C4_DefaultDisplay ==
  NoHostValueAtAll =>
    HasDecl(RuleOf(BlockText(shadow, AllBreakpoint.alias), ":host"), "display", DisplayValue)

\* C5: setting the host's gap attribute puts the gap declaration and the
\* display declaration in the host rule of the "all" block; removing it, when
\* no host-scoped property then has a value at "all", drops the gap
\* declaration and keeps the display declaration.
C5_GapSetThenRemoved ==
  [][ /\ \A v \in Values :
           HostSetAttribute(<<"gap">>, v) =>
             /\ HasDecl(RuleOf(BlockText(shadow, ""), ":host"), "gap", v)'
             /\ HasDecl(RuleOf(BlockText(shadow, ""), ":host"), "display", DisplayValue)'
      /\ (HostRemoveAttribute(<<"gap">>) /\ NoHostValueAtAll') =>
           /\ \A v \in Values : ~HasDecl(RuleOf(BlockText(shadow, ""), ":host"), "gap", v)'
           /\ HasDecl(RuleOf(BlockText(shadow, ""), ":host"), "display", DisplayValue)'
    ]_vars

\* An attribute change whose alias is exactly A: a host attribute set or
\* removed, or the delivery of child mutations that all carry alias A.
ChangeAtAlias(A) ==
  \/ \E n \in HostNames :
       /\ Join(Tail(n)) = A
       /\ \/ \E v \in Values : HostSetAttribute(n, v)
          \/ HostRemoveAttribute(n)
  \/ /\ Deliver
     /\ \A i \in 1..Len(records) : Join(Tail(records[i].attributeName)) = A

AllPropNames == {Properties[i].name : i \in 1..Len(Properties)}

\* Everything but breakpoint A's style block and A's tracker keys is as before.
OnlyAliasChanged(A) ==
  /\ SelectSeq(shadow', LAMBDA n : n.id # StyleId(layoutType, A))
       = SelectSeq(shadow, LAMBDA n : n.id # StyleId(layoutType, A))
  /\ \A k \in (DOMAIN propertyMap \cup DOMAIN propertyMap')
               \ {ValueKey(p, A) : p \in AllPropNames} :
       /\ k \in DOMAIN propertyMap
       /\ k \in DOMAIN propertyMap'
       /\ propertyMap'[k] = propertyMap[k]
  /\ \A B \in BpAliases \ {A} : bpProperties'[B] = bpProperties[B]

RegistryAliases == {Breakpoints[i].alias : i \in 1..Len(Breakpoints)}

\* C6: an attribute change whose alias names a registry breakpoint A leaves
\* the text (and place) of every style block but A's, and the tracked counts
\* under every key of another alias, unchanged.
C6_BreakpointIsolation ==
  [][ \A A \in RegistryAliases : ChangeAtAlias(A) => OnlyAliasChanged(A) ]_vars

\* C6 witness: the host's gap-sm attribute has just been set while the
\* blocks of both registry breakpoints exist next to an "all" block that is
\* no longer the constructor's.
C6_Witness ==
  /\ op = "setAttribute"
  /\ hostAttrs["gap-sm"] # Null
  /\ MapHas(GetValues(propertyMap, "gap", "sm"), hostAttrs["gap-sm"])
  /\ \A A \in RegistryAliases : BlockText(shadow, A) # NoText
  /\ BlockText(shadow, "") # BlockText(ConstructorShadow(layoutType), "")

\* Number of rules in text whose selector is not one of the two reserved keys.
NumValueRules(text) ==
  Cardinality({i \in 3..(Len(text) - 1) :
                 text[i + 1] = " {" /\ text[i] \notin {":host", ":host>*"}})

\* C7: in the style block of every breakpoint, each currently-tracked value
\* of a child-scoped property has exactly one rule, whose selector is the
\* attribute selector of that value and whose body is that value's
\* declarations; a value that is not tracked has none, and the block holds
\* no other value rule.
C7_OneRulePerTrackedValue ==
  \A A \in BpAliases :
    LET text == BlockText(shadow, A)
    IN /\ \A P \in ChildPropNames, v \in Values :
            IF MapHas(GetValues(propertyMap, P, A), v)
              THEN /\ NumRules(text, ChildKey(P, A, v)) = 1
                   /\ RuleOf(text, ChildKey(P, A, v))
                        = << ChildKey(P, A, v), " {" >>
                            \o UnwrapCss(Obj(UpdateFn(P, v, A)[1])) \o << "}" >>
              ELSE NumRules(text, ChildKey(P, A, v)) = 0
       /\ text # NoText =>
            NumValueRules(text)
              = Cardinality({pv \in ChildPropNames \X Values :
                               MapHas(GetValues(propertyMap, pv[1], A), pv[2])})

\* C7 witness: two values of variant are tracked at the "all" breakpoint and
\* its block holds a rule for each.
C7_Witness ==
  /\ MapHas(GetValues(propertyMap, "variant", ""), "a")
  /\ MapHas(GetValues(propertyMap, "variant", ""), "b")
  /\ NumValueRules(BlockText(shadow, "")) = 2

\* C8: a detach immediately followed by a re-attach (no attribute of any
\* child changes in between) leaves the text of every style block as it was.
C8_ReattachKeepsText ==
  [][ MoveHost => shadow' = shadow ]_vars

\* C9: no update cycle ends in an error, whatever the property name, and a
\* gap value the host carries is declared in the "all" block's host rule.
C9_UnknownPropertyNoCrash ==
  /\ threw = FALSE
  /\ hostAttrs["gap"] # Null =>
       HasDecl(RuleOf(BlockText(shadow, ""), ":host"), "gap", hostAttrs["gap"])

\* C10: a host attribute whose alias no breakpoint has is handled at the
\* "all" breakpoint without error: its property is in the "all" active list,
\* its value is tracked under the key "all" synthesis reads and is declared
\* in the "all" block.
C10_UnknownAliasFallsBackToAll ==
  \A n \in UnknownAliasNames :
    hostAttrs[Join(n)] # Null =>
      /\ threw = FALSE
      /\ \E i \in 1..Len(bpProperties[""]) : bpProperties[""][i] = Head(n)
      /\ MapHas(GetValues(propertyMap, Head(n), AllBreakpoint.alias), hostAttrs[Join(n)])
      /\ HasDecl(RuleOf(BlockText(shadow, ""), ":host"), Head(n), hostAttrs[Join(n)])

\* Number of style blocks of breakpoint alias A in the style scope.
NumBlocks(sh, A) ==
  Cardinality({i \in 1..Len(sh) : sh[i].tag = "style" /\ sh[i].id = StyleId(layoutType, A)})

\* C11: the style scope holds one style block for "all" and, for every other
\* breakpoint, one block from the first update cycle at that breakpoint on
\* and none before; never two with the same identifier, never one removed,
\* and no block of any other identifier.
C11_OneBlockPerBreakpoint ==
  /\ \A A \in BpAliases :
       NumBlocks(shadow, A) = IF A = "" \/ bpProperties[A] # <<>> THEN 1 ELSE 0
  /\ Cardinality({i \in 1..Len(shadow) : shadow[i].tag = "style" /\ shadow[i].id # ""})
       = Cardinality({A \in BpAliases : NumBlocks(shadow, A) = 1})

\* C11 witness: after a detach/re-attach cycle whose replay rewrote an
\* existing block, with the blocks of both registry breakpoints in place.
C11_Witness ==
  /\ op = "move"
  /\ \A A \in RegistryAliases : bpProperties[A] # <<>> /\ NumBlocks(shadow, A) = 1
  /\ \E k \in DOMAIN propertyMap :
       \E i \in 1..Len(propertyMap[k]) : propertyMap[k][i].n >= 2

\* The block text one more run of CSS synthesis and serialization gives for
\* the breakpoint of attribute name n, on tracker pm, active lists bps and
\* host attributes attrs.
Resynthesize(pm, bps, attrs, n) ==
  LET alias == Join(Tail(n))
      bp == GetBreakpointByAlias(alias)
  IN MediaBlock(bp.mediaQuery,
       UnwrapCss(Obj(BuildCss(pm, bp.alias, bps[bp.alias],
                              HostHasAttribute(attrs, InlineAttr(bp.alias)),
                              layoutType, alias # ""))))

ValueTakenIn(i) ==
  LET later == {j \in (i + 1)..Len(records) :
                  /\ records[j].target = records[i].target
                  /\ records[j].attributeName = records[i].attributeName}
  IN IF later = {}
       THEN childAttrs[records[i].target][Join(records[i].attributeName)]
       ELSE records[CHOOSE j \in later : \A k \in later : j <= k].oldValue

\* The new value the observer callback hands to the update cycle of record i
\* (line 79: the attribute as it is when the batch is delivered).
ValueHandedFor(i) ==
  childAttrs[records[i].target][Join(records[i].attributeName)]

\* C13: every recorded child-attribute mutation gets an update cycle with the
\* value the attribute took in that very mutation, also when several
\* mutations of one attribute of one child wait in the same batch.
C13_EachMutationOwnValues ==
  \A i \in 1..Len(records) : ValueHandedFor(i) = ValueTakenIn(i)

\* C14: a detach followed by an attach, with no child attribute change in
\* between, leaves every count of the Value Tracker as it was before.
C14_ReattachKeepsCounts ==
  [][ MoveHost =>
        \A name \in HostNames \cup ChildNames : \A v \in Values :
          Count(name, v)' = Count(name, v) ]_vars

\* Position of a property in the Property Registry.
RegistryIndex(p) == CHOOSE i \in 1..Len(Properties) : Properties[i].name = p

\* Keys of a fragment, and the value a fragment gives to one of its keys.
FragKeys(frag) == {frag[i].key : i \in 1..Len(frag)}
FragValue(frag, k) == frag[CHOOSE i \in 1..Len(frag) : frag[i].key = k].val.s

\* The fragments updateFn returns for the value host synthesis takes for
\* property p at breakpoint A.
FragsOf(p, A) == UpdateFn(p, GetValues(propertyMap, p, A)[1].key, A)

\* C15: of two host-scoped properties with tracked values at a breakpoint
\* that emit the same declaration key (host bucket or wildcard-child bucket),
\* the block carries the declaration of the one later in registry order.
C15_LaterInRegistryWins ==
  \A p \in HostPropNames, q \in HostPropNames :
    ( /\ RegistryIndex(p) < RegistryIndex(q)
      /\ GetValues(propertyMap, p, "") # <<>>
      /\ GetValues(propertyMap, q, "") # <<>> ) =>
      /\ \A k \in FragKeys(FragsOf(p, "")[1]) \cap FragKeys(FragsOf(q, "")[1]) :
           HasDecl(RuleOf(BlockText(shadow, ""), ":host"), k, FragValue(FragsOf(q, "")[1], k))
      /\ \A k \in FragKeys(FragsOf(p, "")[2]) \cap FragKeys(FragsOf(q, "")[2]) :
           HasDecl(RuleOf(BlockText(shadow, ""), ":host>*"), k, FragValue(FragsOf(q, "")[2], k))

\* Position of value v in the key sequence ks of a tracked-value map.
KeyPos(ks, v) == CHOOSE i \in 1..Len(ks) : ks[i] = v

\* C16: over any notification for host-scoped gap, the values that stay in
\* its tracked-value map keep their relative order (re-incrementing or
\* removing another value moves nothing), a value that enters the map (also
\* one that was removed at count 0 before) enters last, and the host rule of
\* the block carries the first value of the map.
C16_FirstInsertedStillPresentWins ==
  [][ (\E o \in DirectValues \cup {Null}, n \in DirectValues \cup {Null} :
         Notify(<<"gap">>, o, n)) =>
        LET before == MapKeys(GetValues(propertyMap, "gap", ""))
            after  == MapKeys(GetValues(propertyMap', "gap", ""))
            Old(v) == \E i \in 1..Len(before) : before[i] = v
        IN /\ \A i \in 1..Len(after) : \A j \in 1..Len(after) :
                (i < j /\ Old(after[i]) /\ Old(after[j])) =>
                  KeyPos(before, after[i]) < KeyPos(before, after[j])
           /\ \A i \in 1..Len(after) : ~Old(after[i]) => i = Len(after)
           /\ after # <<>> =>
                HasDecl(RuleOf(BlockText(shadow', ""), ":host"), "gap", after[1])
    ]_vars

\* C16 witness: the map of gap holds several distinct values, the first of
\* them incremented again after a later one was inserted or removed, and the
\* host rule carries that first value.
C16_Witness ==
  /\ op = "notify"
  /\ Len(GetValues(propertyMap, "gap", "")) >= 2
  /\ GetValues(propertyMap, "gap", "")[1] = [key |-> "b", n |-> 2]
  /\ HasDecl(RuleOf(BlockText(shadow, ""), ":host"), "gap", "b")

\* seq is a prefix of seq2.
IsPrefix(seq, seq2) == Len(seq) <= Len(seq2) /\ SubSeq(seq2, 1, Len(seq)) = seq

\* C17: over every step each breakpoint's active-property list keeps its
\* entries in place (it can only be extended at the end), holds no name
\* twice, and lists exactly the properties for which an attribute has been
\* processed at that breakpoint, whether or not any value is still tracked.
C17_ActiveListOnlyGrows ==
  [][ \A A \in BpAliases :
        /\ IsPrefix(bpProperties[A], bpProperties'[A])
        /\ \A i \in 1..Len(bpProperties'[A]) : \A j \in 1..Len(bpProperties'[A]) :
             bpProperties'[A][i] = bpProperties'[A][j] => i = j
        /\ \A p \in AllPropNames :
             (\E i \in 1..Len(bpProperties'[A]) : bpProperties'[A][i] = p)
               <=> ValueKey(p, A) \in DOMAIN propertyMap'
    ]_vars

\* C17 witness: a breakpoint lists two properties, one of which has lost all
\* of its tracked values by an attribute removal.
C17_Witness ==
  /\ op = "removeAttribute"
  /\ \E A \in BpAliases :
       /\ Len(bpProperties[A]) = 2
       /\ \E i \in 1..2 : GetValues(propertyMap, bpProperties[A][i], A) = <<>>

\* C18: detach leaves the Value Tracker, the active-property lists and the
\* style scope as they are and drops the recorded mutations; while detached,
\* no child attribute operation and no delivery changes any of them or
\* records a mutation.
C18_DetachOnlyStopsObservation ==
  [][ ( \/ DisconnectedCallback
        \/ ( /\ ~connected
             /\ \/ \E c \in ChildIds, n \in ChildNames, v \in Values : ChildSetAttribute(c, n, v)
                \/ \E c \in ChildIds, n \in ChildNames : ChildRemoveAttribute(c, n)
                \/ Deliver ) ) =>
        /\ propertyMap' = propertyMap
        /\ bpProperties' = bpProperties
        /\ shadow' = shadow
        /\ records' = <<>>
    ]_vars

\* C18 witness: the host was attached with its children, child 1 then took
\* variant = "a", and the detach came before the record was delivered.
C18_Witness ==
  /\ op = "disconnectedCallback"
  /\ steps = 3
  /\ children = <<1, 2>>
  /\ childAttrs[1]["variant"] = "a"
  /\ propertyMap = <<>>

\* The nodes of the style scope in document order, each by its identifier.
NodeIds(sh) == [i \in 1..Len(sh) |-> IF sh[i].tag = "slot" THEN "<slot>" ELSE sh[i].id]

\* C19: after every step the slot is the last node of the style scope and
\* the "all" block comes before every aliased block; a step either leaves
\* the sequence of nodes as it is or puts one new aliased block immediately
\* before the slot.
C19_BlockOrder ==
  [][ /\ NodeIds(shadow')[Len(shadow')] = "<slot>"
      /\ \A i \in 1..(Len(shadow') - 1) : shadow'[i].tag = "style"
      /\ \A A \in RegistryAliases :
           GetElementById(shadow', StyleId(layoutType, A)) # 0 =>
             /\ GetElementById(shadow', StyleId(layoutType, "")) # 0
             /\ GetElementById(shadow', StyleId(layoutType, ""))
                  < GetElementById(shadow', StyleId(layoutType, A))
      /\ \/ NodeIds(shadow') = NodeIds(shadow)
         \/ \E A \in RegistryAliases :
              /\ GetElementById(shadow, StyleId(layoutType, A)) = 0
              /\ NodeIds(shadow') =
                   SubSeq(NodeIds(shadow), 1, Len(shadow) - 1)
                     \o << StyleId(layoutType, A), "<slot>" >>
    ]_vars

\* C19 witness: the existing "all" block was rewritten by a host attribute
\* change, the md block was created by the attach replay and the sm block
\* after it by a host attribute change.
C19_Witness ==
  /\ op = "setAttribute"
  /\ steps = 4
  /\ hostAttrs["gap"] # Null
  /\ hostAttrs["gap-sm"] = "b"
  /\ NodeIds(shadow) = << "", StyleId(layoutType, ""), StyleId(layoutType, "md"),
                          StyleId(layoutType, "sm"), "<slot>" >>

\* C20: with host attribute changes as the only notifications, the tracked-
\* value map of every host attribute name is empty when the host lacks the
\* attribute and otherwise holds the host's current value alone, with count
\* 1; the host rule of the breakpoint's block carries the declarations of
\* that current value and no declaration of the property when there is none.
C20_HostMapIsCurrentValue ==
  \A n \in HostNames :
    LET p == Head(n)
        A == Join(Tail(n))
        v == hostAttrs[Join(n)]
        rule == RuleOf(BlockText(shadow, A), ":host")
    IN IF v = Null
         THEN /\ GetValues(propertyMap, p, A) = <<>>
              /\ \A w \in Values : \A k \in FragKeys(UpdateFn(p, w, A)[1]) :
                   ~HasDecl(rule, k, w)
         ELSE /\ GetValues(propertyMap, p, A) = << [key |-> v, n |-> 1] >>
              /\ \A k \in FragKeys(UpdateFn(p, v, A)[1]) :
                   HasDecl(rule, k, FragValue(UpdateFn(p, v, A)[1], k))

\* C20 witness: gap has been set, to "b" at last, at both breakpoints by
\* host attribute changes alone, one of them replacing an earlier value.
C20_Witness ==
  /\ op = "setAttribute"
  /\ steps = 3
  /\ hostAttrs["gap"] = "b"
  /\ hostAttrs["gap-sm"] = "b"
  /\ HasDecl(RuleOf(BlockText(shadow, "sm"), ":host"), "gap", "b")

====
